---- MODULE Spec2Model ----
(***************************************************************************)
(* State-machine model of contracts/RockPaperScissorsGame.sol, of the hook *)
(* useRockPaperScissors in its contract-backed, pay-widget and             *)
(* dual-transfer variants, and of the payment button of the game page.     *)
(* Each has its own specification; the state of the others stays as it is. *)
(*                                                                         *)
(* The contract's storage (rounds, currentRoundId) and the USDC balances   *)
(* it moves are the state.  Every external function is one action that     *)
(* models the whole transaction: a revert restores the pre-state (EVM      *)
(* semantics), and the outcome of each call into the USDC token (success,  *)
(* `false`, or a revert inside the token) is an input of the action.       *)
(* The token's allowance is part of that outcome: transferFrom without     *)
(* allowance is a transferFrom that fails.  Ownable's transferOwnership    *)
(* and renounceOwnership are library code and are not called: the owner    *)
(* is the deployer throughout.                                             *)
(*                                                                         *)
(* A definition commented "Faulty variant" is a faulty version of the      *)
(* definition that follows it; the properties below tell the two apart.    *)
(***************************************************************************)
EXTENDS Integers, Sequences, FiniteSets, TLC

(* ------------------------------ bounds -------------------------------- *)
\* The accounts that play are 1..NumPlayers.
NumPlayers == 2
\* Round ids 0..MaxRound are passed to the contract.
MaxRound == 1
\* uint8 arguments range over 0..MaxChoice (values above 2 are invalid).
MaxChoice == 3
\* Every account starts with InitEntries entry fees of USDC.
InitEntries == 1
\* The payment button arms at most MaxTimers timeouts.
MaxTimers == 2

(* ------------------------- program constants -------------------------- *)
ENTRY_COST == 1000000

RAKE_AMOUNT == 90000

\* Faulty variant: the whole fee goes to the pool.
PRIZE_CONTRIBUTION_NoRake == ENTRY_COST

PRIZE_CONTRIBUTION == 910000

\* Ownable sets the owner to the deployer.  The deployer administers the
\* game and is not one of the accounts that play.
OWNER == 0

\* address(this): the contract's own USDC account.
THIS == -1

\* The platform wallet 0x9AE06d099415A8cD55ffCe40f998bC7356c9c798.
RAKE_ADDRESS == -2

Players == 1..NumPlayers

\* The accounts that send transactions.
Senders == Players \cup {OWNER}

\* Every holder of USDC in the model.
Accounts == Senders \cup {THIS, RAKE_ADDRESS}

Rounds == 0..MaxRound

Choices == 0..MaxChoice

\* What a call into the token can do: move the funds and return true,
\* return false without moving anything, or revert.
TokenOutcomes == {"ok", "false", "revert"}

VARIABLES
    rounds,          \* mapping(uint256 => GameRound)
    currentRoundId,  \* uint256 public currentRoundId
    balance,         \* USDC.balanceOf, for every account
    paid,            \* per round and account: USDC sent by WinningsClaimed transfers
    last             \* the last transaction: function, error, events, token calls

\* The state of the React hook useRockPaperScissors, for one user of one
\* device, and of the payment button.  A JavaScript null is NULL; a hash
\* that is null or undefined is NoTx.
VARIABLES
    now,                   \* Date.now() at the last tick, in ms
    currentRound,          \* useState<GameRound | null>
    gameState,             \* useState<GameState>
    playerChoice,          \* useState<GameChoice | null>
    playerEntries,         \* useState<Map<fid, Set<roundId>>>
    winners,               \* useState<Map<roundId, fid[]>>
    isSubmitting,          \* useState(false)
    paymentPendingChoice,  \* useState<GameChoice | null>
    isApproving,           \* useState(false), contract-backed hook
    writeRequest,          \* useWriteContract: the call handed to writeContract
    hash,                  \* useWriteContract: data
    writeError,            \* useWriteContract: error
    isConfirmed,           \* useWaitForTransactionReceipt({ hash }): isSuccess
    potTransactionHash,    \* useState<string | null>, dual-transfer hook
    creatorTransactionHash, \* useState<string | null>, dual-transfer hook
    isConfirming,          \* useState(false), pay-widget hook
    isPaymentStarted,      \* DaimoPayTransferButton: useState(false)
    timeoutRef,            \* DaimoPayTransferButton: useRef, the timer last armed
    timers                 \* the timeouts armed and neither fired nor cleared

contractVars == <<rounds, currentRoundId, balance, paid, last>>

hookVars == <<now, currentRound, gameState, playerChoice, playerEntries, winners,
              isSubmitting, paymentPendingChoice>>

wagmiVars == <<isApproving, writeRequest, hash, writeError, isConfirmed,
               potTransactionHash, creatorTransactionHash>>

payVars == <<isConfirming, isPaymentStarted, timeoutRef, timers>>

buttonVars == <<isPaymentStarted, timeoutRef, timers>>

vars == <<rounds, currentRoundId, balance, paid, last,
          now, currentRound, gameState, playerChoice, playerEntries, winners,
          isSubmitting, paymentPendingChoice,
          isApproving, writeRequest, hash, writeError, isConfirmed,
          potTransactionHash, creatorTransactionHash,
          isConfirming, isPaymentStarted, timeoutRef, timers>>

(* ----------------------------- storage -------------------------------- *)
\* A GameRound that was never written: every field is zero.
GameRound ==
    [id |-> 0, startTime |-> 0, prizePool |-> 0, chainMove |-> 0,
     playerEntries |-> 0, isComplete |-> FALSE,
     playerChoices |-> [a \in Players |-> 0],
     hasEntered |-> [a \in Players |-> FALSE],
     hasClaimed |-> [a \in Players |-> FALSE],
     players |-> <<>>]

\* Before the first transaction only the constructor has run.
NoCall == [op |-> "constructor", err |-> "none", events |-> {}, tokenCalls |-> 0]

\* null
NULL == -1

\* The Farcaster users whose entries the device's localStorage can hold, and
\* the one who is signed in (context.user.fid).
Fids == Players

USER_FID == 1

\* currentRound before the first tick.
NoRound == [id |-> NULL, prizePool |-> 0, playerEntries |-> 0, isComplete |-> FALSE]

\* No call, and no transaction.
NoTx == [fn |-> "none", round |-> NULL, choice |-> NULL]

\* The hook as it is mounted, with the payment button: the useState defaults,
\* an idle wallet, and the entries of the device's other users as the mount
\* effect loads them from localStorage.
HookMounted ==
    /\ now = 0
    /\ currentRound = NoRound
    /\ gameState = "waiting"
    /\ playerChoice = NULL
    /\ playerEntries \in {f \in [Fids -> SUBSET Rounds] : f[USER_FID] = {}}
    /\ winners = [r \in Rounds |-> {}]
    /\ isSubmitting = FALSE
    /\ paymentPendingChoice = NULL
    /\ isApproving = FALSE
    /\ writeRequest = NoTx
    /\ hash = NoTx
    /\ writeError = FALSE
    /\ isConfirmed = FALSE
    /\ potTransactionHash = NoTx
    /\ creatorTransactionHash = NoTx
    /\ isConfirming = FALSE
    /\ isPaymentStarted = FALSE
    /\ timeoutRef = NULL
    /\ timers = {}

\* The contract as it is deployed.
Deployed ==
    /\ rounds = [r \in Rounds |-> GameRound]
    /\ currentRoundId = 0
    /\ balance = [a \in Accounts |-> IF a \in Players THEN InitEntries * ENTRY_COST ELSE 0]
    /\ paid = [r \in Rounds |-> [a \in Players |-> 0]]
    /\ last = NoCall

\* The hook's state is no part of the contract's behaviours: it stays as a
\* page that was never opened has it.
NoPage ==
    /\ HookMounted
    /\ playerEntries = [f \in Fids |-> {}]

Init ==
    /\ Deployed
    /\ NoPage

(* ------------------------------ helpers ------------------------------- *)
\* Faulty variant: every uint8 passes.
validChoiceNone(choice) == TRUE

\* modifier validChoice: `if (choice > 2) revert InvalidChoice();`
validChoice(choice) == ~(choice > 2)

\* Faulty variant: the chain's own move wins.
calculateWinningChoiceSame(chainMove) == chainMove

\* The contract's calculateWinningChoice.
calculateWinningChoice(chainMove) ==
    IF chainMove = 0 THEN 1
    ELSE IF chainMove = 1 THEN 2
    ELSE 0

\* The hook's calculateWinningChoice: a switch over the three moves; any
\* other value falls out of the switch and yields undefined.
hookCalculateWinningChoice(chainMove) ==
    CASE chainMove = 0 -> 1
      [] chainMove = 1 -> 2
      [] chainMove = 2 -> 0
      [] OTHER -> "undefined"

\* Faulty variant: the token transfers made before the revert are kept.
RevertedNoRollback(pre, cur, err, calls) ==
    [err |-> err, rounds |-> pre.rounds, balance |-> cur.balance,
     transfers |-> <<>>, events |-> {}, tokenCalls |-> calls]

\* A revert: storage and token balances are those before the call.
\* `pre` is the state the call started in, `cur` the state it had reached.
\* calls is the number of calls into the token the transaction made.
Reverted(pre, cur, err, calls) ==
    [err |-> err, rounds |-> pre.rounds, balance |-> pre.balance,
     transfers |-> <<>>, events |-> {}, tokenCalls |-> calls]

\* The effect of a successful USDC transfer of amt from one account to another.
Transfer(bal, from, to, amt) == [bal EXCEPT ![from] = @ - amt, ![to] = @ + amt]

\* The transfer as it is kept in the transaction's record.
Xfer(from, to, amt) == [from |-> from, to |-> to, amount |-> amt]

(* ----------------------------- enterGame ------------------------------ *)
\* Faulty variant: the hasEntered check is missing.
AlreadyEnteredNever(round, sender) == FALSE

\* `if (round.hasEntered[msg.sender]) revert AlreadyEntered();`
AlreadyEnteredCheck(round, sender) == round.hasEntered[sender]

\* "Add remaining amount to prize pool" and "Record player entry".
RecordEntry(round, sender, choice) ==
    [round EXCEPT !.prizePool = @ + PRIZE_CONTRIBUTION,
                  !.hasEntered[sender] = TRUE,
                  !.playerChoices[sender] = choice,
                  !.players = Append(@, sender),
                  !.playerEntries = @ + 1]

\* enterGame(choice, roundId) sent by `sender` from the state pre; pull and
\* rake are what the token does on transferFrom and on the rake transfer.
EnterGameCall(pre, sender, choice, roundId, pull, rake) ==
    LET round == pre.rounds[roundId]
        afterPull == [pre EXCEPT !.balance = Transfer(@, sender, THIS, ENTRY_COST)]
        afterRake == [afterPull EXCEPT !.balance = Transfer(@, THIS, RAKE_ADDRESS, RAKE_AMOUNT)]
    IN  IF ~validChoice(choice) THEN Reverted(pre, pre, "InvalidChoice", 0)
        ELSE IF AlreadyEnteredCheck(round, sender) THEN Reverted(pre, pre, "AlreadyEntered", 0)
        ELSE IF pull = "revert" THEN Reverted(pre, pre, "TokenRevert", 1)
        ELSE IF pull = "false" THEN Reverted(pre, pre, "TransferFailed", 1)
        ELSE IF rake = "revert" THEN Reverted(pre, afterPull, "TokenRevert", 2)
        ELSE IF rake = "false" THEN Reverted(pre, afterPull, "TransferFailed", 2)
        ELSE [err |-> "none",
              rounds |-> [pre.rounds EXCEPT ![roundId] = RecordEntry(round, sender, choice)],
              balance |-> afterRake.balance,
              transfers |-> <<Xfer(sender, THIS, ENTRY_COST),
                              Xfer(THIS, RAKE_ADDRESS, RAKE_AMOUNT)>>,
              events |-> {"PlayerEntered", "RakeTransferred"},
              tokenCalls |-> 2]

\* The contract state a transaction starts in.
Pre == [rounds |-> rounds, balance |-> balance]

\* What stays visible of a transaction: the function called, the error it
\* reverted with ("none" when it returned), the kinds of event it emitted and
\* the number of calls it made into the token.
CallRecord(op, out) ==
    [op |-> op, err |-> out.err, events |-> out.events, tokenCalls |-> out.tokenCalls]

\* One enterGame transaction with all its inputs fixed.
EnterGameTx(sender, choice, roundId, pull, rake) ==
    \* the token can move only funds the payer has
    /\ pull = "ok" => balance[sender] >= ENTRY_COST
    /\ LET out == EnterGameCall(Pre, sender, choice, roundId, pull, rake)
       IN  /\ rounds' = out.rounds
           /\ balance' = out.balance
           /\ last' = CallRecord("enterGame", out)
    /\ UNCHANGED <<currentRoundId, paid, hookVars, wagmiVars, payVars>>

\* transferFrom is attempted only past the two checks, and the rake transfer
\* only after transferFrom succeeded: the token's outcomes are inputs of the
\* transaction only then.
EnterGame ==
    \E sender \in Players, choice \in Choices, roundId \in Rounds :
      \E pull \in IF ~validChoice(choice) \/ rounds[roundId].hasEntered[sender]
                  THEN {"revert"} ELSE TokenOutcomes :
        \E rake \in IF pull = "ok" THEN TokenOutcomes ELSE {"ok"} :
          EnterGameTx(sender, choice, roundId, pull, rake)

(* ------------------- completeRound / _distributeWinnings --------------- *)
\* Faulty variant: the modifier lets every sender through.
onlyOwnerAnyone(sender) == TRUE

\* modifier onlyOwner (Ownable).
onlyOwner(sender) == sender = OWNER

\* Faulty variant: the early return is missing.
IsCompleteNever(round) == FALSE

\* `if (round.isComplete) return;`
IsComplete(round) == round.isComplete

\* "Count winners first": the first loop of _distributeWinnings.
winnerCount(round, winningChoice) ==
    Cardinality({i \in 1..Len(round.players) :
                    round.playerChoices[round.players[i]] = winningChoice})

\* Faulty variant: the zero-winner return is missing.
NoWinnersNever(count) == FALSE

\* `if (winnerCount == 0) return;`
NoWinners(count) == count = 0

\* Faulty variant: the pool is not divided.
winningsPerPlayerWholePool(round, count) == round.prizePool

\* `round.prizePool / winnerCount`: unsigned integer division.
winningsPerPlayer(round, count) == round.prizePool \div count

\* Faulty variant: the player's choice is not compared.
EligibleAnyChoice(round, player, winningChoice) == ~round.hasClaimed[player]

\* The condition under which the second loop pays players[i].
Eligible(round, player, winningChoice) ==
    round.playerChoices[player] = winningChoice /\ ~round.hasClaimed[player]

\* Faulty variant: a transfer that returns false stops the settlement too.
StopsLoopOnFalse(outcome) == outcome # "ok"

\* `if (USDC.transfer(player, winningsPerPlayer)) { emit ... }`: a false
\* return only leaves the event out, so only a revert inside the token stops
\* the loop.
StopsLoop(outcome) == outcome = "revert"

\* The second loop of _distributeWinnings from index i on.  st holds the round,
\* the balances and the transfers made so far; tok[p] is what the token does
\* on the transfer to p when the contract has the funds, onShort what it does
\* when the contract's balance is below the amount.
RECURSIVE PayLoop(_, _, _, _, _, _)
PayLoop(i, st, winningChoice, amount, tok, onShort) ==
    IF st.err # "none" \/ i > Len(st.round.players) THEN st
    ELSE LET player == st.round.players[i]
             outcome == IF st.balance[THIS] < amount /\ tok[player] = "ok"
                        THEN onShort ELSE tok[player]
             marked == [st EXCEPT !.round.hasClaimed[player] = TRUE,
                                  !.tokenCalls = @ + 1]
         IN  IF ~Eligible(st.round, player, winningChoice)
             THEN PayLoop(i + 1, st, winningChoice, amount, tok, onShort)
             ELSE IF StopsLoop(outcome)
             THEN [marked EXCEPT !.err = IF outcome = "revert" THEN "TokenRevert"
                                         ELSE "TransferFailed"]
             ELSE IF outcome = "ok"
             THEN PayLoop(i + 1,
                          [marked EXCEPT !.balance = Transfer(@, THIS, player, amount),
                                         !.transfers = Append(@, Xfer(THIS, player, amount))],
                          winningChoice, amount, tok, onShort)
             ELSE PayLoop(i + 1, marked, winningChoice, amount, tok, onShort)

\* _distributeWinnings(roundId, winningChoice) on the round as completeRound left it.
\* A division by zero is a Panic, which reverts the transaction.
DistributeWinnings(round, bal, winningChoice, tok, onShort) ==
    LET count == winnerCount(round, winningChoice)
        st == [round |-> round, balance |-> bal, transfers |-> <<>>,
               err |-> "none", tokenCalls |-> 0]
    IN  IF NoWinners(count) THEN st
        ELSE IF count = 0 THEN [st EXCEPT !.err = "Panic"]
        ELSE PayLoop(1, st, winningChoice, winningsPerPlayer(round, count), tok, onShort)

\* Faulty variant: the chain's move is not stored.
SettleNoMove(round, chainMove) == [round EXCEPT !.isComplete = TRUE]

\* `round.chainMove = chainMove; round.isComplete = true;`
Settle(round, chainMove) ==
    [round EXCEPT !.chainMove = chainMove, !.isComplete = TRUE]

\* completeRound(roundId, chainMove) sent by `sender` from the state pre.
CompleteRoundCall(pre, sender, roundId, chainMove, tok, onShort) ==
    LET round == pre.rounds[roundId]
        settled == Settle(round, chainMove)
        winningChoice == calculateWinningChoice(chainMove)
        d == DistributeWinnings(settled, pre.balance, winningChoice, tok, onShort)
    IN  IF ~onlyOwner(sender) THEN Reverted(pre, pre, "NotOwner", 0)
        ELSE IF ~validChoice(chainMove) THEN Reverted(pre, pre, "InvalidChoice", 0)
        ELSE IF IsComplete(round)
        THEN [err |-> "none", rounds |-> pre.rounds, balance |-> pre.balance,
              transfers |-> <<>>, events |-> {}, tokenCalls |-> 0]
        ELSE IF d.err # "none" THEN Reverted(pre, d, d.err, d.tokenCalls)
        ELSE [err |-> "none",
              rounds |-> [pre.rounds EXCEPT ![roundId] = d.round],
              balance |-> d.balance,
              transfers |-> d.transfers,
              events |-> {"RoundCompleted"}
                         \cup (IF d.transfers = <<>> THEN {} ELSE {"WinningsClaimed"}),
              tokenCalls |-> d.tokenCalls]

\* The sum of the amounts a list of transfers sends to account a.
RECURSIVE SumTo(_, _)
SumTo(transfers, a) ==
    IF transfers = <<>> THEN 0
    ELSE (IF Head(transfers).to = a THEN Head(transfers).amount ELSE 0)
         + SumTo(Tail(transfers), a)

\* One completeRound transaction with all its inputs fixed.
CompleteRoundTx(sender, roundId, chainMove, tok, onShort) ==
    LET out == CompleteRoundCall(Pre, sender, roundId, chainMove, tok, onShort)
    IN  /\ rounds' = out.rounds
        /\ balance' = out.balance
        /\ paid' = [paid EXCEPT ![roundId] =
                       [a \in Players |-> @[a] + SumTo(out.transfers, a)]]
        /\ last' = CallRecord("completeRound", out)
        /\ UNCHANGED <<currentRoundId, hookVars, wagmiVars, payVars>>

\* The accounts completeRound(roundId, chainMove) attempts a transfer to.
Payees(sender, roundId, chainMove) ==
    IF onlyOwner(sender) /\ validChoice(chainMove) /\ ~rounds[roundId].isComplete
    THEN {p \in Players : /\ rounds[roundId].hasEntered[p]
                          /\ Eligible(rounds[roundId], p, calculateWinningChoice(chainMove))}
    ELSE {}

\* The token's outcomes are inputs only for the transfers that are attempted.
CompleteRound ==
    \E sender \in Senders, roundId \in Rounds, chainMove \in Choices :
      LET P == Payees(sender, roundId, chainMove)
      IN  \E g \in [P -> TokenOutcomes],
             onShort \in IF P = {} THEN {"false"} ELSE {"false", "revert"} :
            CompleteRoundTx(sender, roundId, chainMove,
                            [p \in Players |-> IF p \in P THEN g[p] ELSE "ok"], onShort)

(* ------------------------ the other functions -------------------------- *)
\* getPlayerChoice(roundId, player), a view: the stored uint8, which is 0
\* for an address that never entered.
getPlayerChoice(roundId, player) == rounds[roundId].playerChoices[player]

\* Faulty variant: the current round is the last one that has an entry.
getCurrentRoundLatest ==
    LET entered == {r \in Rounds : rounds[r].playerEntries > 0} \cup {currentRoundId}
        latest == CHOOSE r \in entered : \A q \in entered : q <= r
    IN  [id |-> latest,
         startTime |-> rounds[latest].startTime,
         prizePool |-> rounds[latest].prizePool,
         chainMove |-> rounds[latest].chainMove,
         playerEntries |-> rounds[latest].playerEntries,
         isComplete |-> rounds[latest].isComplete]

\* getCurrentRound(), a view: currentRoundId and the fields of its round.
getCurrentRound ==
    [id |-> currentRoundId,
     startTime |-> rounds[currentRoundId].startTime,
     prizePool |-> rounds[currentRoundId].prizePool,
     chainMove |-> rounds[currentRoundId].chainMove,
     playerEntries |-> rounds[currentRoundId].playerEntries,
     isComplete |-> rounds[currentRoundId].isComplete]

\* Faulty variant: the legacy function returns instead of reverting.
ClaimWinningsCallReturns(pre, sender, roundId) ==
    [err |-> "none", rounds |-> pre.rounds, balance |-> pre.balance,
     transfers |-> <<>>, events |-> {}, tokenCalls |-> 0]

\* claimWinnings(roundId): `revert("Winnings distributed automatically");`
ClaimWinningsCall(pre, sender, roundId) ==
    Reverted(pre, pre, "Winnings distributed automatically", 0)

ClaimWinningsTx(sender, roundId) ==
    LET out == ClaimWinningsCall(Pre, sender, roundId)
    IN  /\ rounds' = out.rounds
        /\ balance' = out.balance
        /\ last' = CallRecord("claimWinnings", out)
        /\ UNCHANGED <<currentRoundId, paid, hookVars, wagmiVars, payVars>>

ClaimWinnings ==
    \E sender \in Senders, roundId \in Rounds : ClaimWinningsTx(sender, roundId)

\* emergencyWithdraw(): balanceOf, then the whole balance goes to the owner;
\* the value transfer returns is not looked at.
EmergencyWithdrawCall(pre, sender, tokOut) ==
    LET amount == pre.balance[THIS]
    IN  IF ~onlyOwner(sender) THEN Reverted(pre, pre, "NotOwner", 0)
        ELSE IF tokOut = "revert" THEN Reverted(pre, pre, "TokenRevert", 2)
        ELSE IF tokOut = "ok"
        THEN [err |-> "none", rounds |-> pre.rounds,
              balance |-> Transfer(pre.balance, THIS, OWNER, amount),
              transfers |-> <<Xfer(THIS, OWNER, amount)>>, events |-> {},
              tokenCalls |-> 2]
        ELSE [err |-> "none", rounds |-> pre.rounds, balance |-> pre.balance,
              transfers |-> <<>>, events |-> {}, tokenCalls |-> 2]

EmergencyWithdrawTx(sender, tokOut) ==
    LET out == EmergencyWithdrawCall(Pre, sender, tokOut)
    IN  /\ rounds' = out.rounds
        /\ balance' = out.balance
        /\ last' = CallRecord("emergencyWithdraw", out)
        /\ UNCHANGED <<currentRoundId, paid, hookVars, wagmiVars, payVars>>

EmergencyWithdraw ==
    \E sender \in Senders :
      \E tokOut \in IF onlyOwner(sender) THEN TokenOutcomes ELSE {"ok"} :
        EmergencyWithdrawTx(sender, tokOut)

Next ==
    \/ EnterGame
    \/ CompleteRound
    \/ ClaimWinnings
    \/ EmergencyWithdraw

Spec == Init /\ [][Next]_vars

\* The contract when its owner never calls emergencyWithdraw.
NoWithdrawNext ==
    \/ EnterGame
    \/ CompleteRound
    \/ ClaimWinnings

NoWithdrawSpec == Init /\ [][NoWithdrawNext]_vars

(* ====================================================================== *)
(*        The hook useRockPaperScissors (contract-backed variant)         *)
(* ====================================================================== *)
(* Every handler of the hook is a function from the hook's state to the   *)
(* state it leaves; an action applies one handler and then the effects    *)
(* that React runs on the state it changed, before anything else happens. *)
(* wagmi's two hooks are the environment: writeContract(call) starts a    *)
(* new request and clears data and error at once; the wallet then either  *)
(* signs it (data becomes the transaction's hash) or rejects it (error);   *)
(* and the receipt of the transaction under `hash` arrives or never does   *)
(* (a transaction that reverted on chain is one whose receipt never       *)
(* makes isSuccess true).                                                  *)

ROUND_DURATION_MINUTES == 15

ENTRY_WINDOW_MINUTES == 15

PLATFORM_FEE_PERCENTAGE == 9

\* Faulty variant: the completion display lasts the whole round.
CompletionWindowWholeRound == ROUND_DURATION_MINUTES * 60 * 1000

\* `timeUntilEnd <= 30000`: the last 30 seconds of a round.
CompletionWindowMs == 30000

\* Faulty variant: the minutes are taken for seconds.
roundDurationMsOfSeconds == ROUND_DURATION_MINUTES * 1000

roundDurationMs == ROUND_DURATION_MINUTES * 60 * 1000

\* The instants at which the model looks at the clock: in every round its
\* first millisecond and the first millisecond of its completion window.
Instants ==
    {r * roundDurationMs + o : r \in Rounds,
                               o \in {0, roundDurationMs - CompletionWindowMs}}

\* getCurrentRoundInfo(), with Date.now() = t.
getCurrentRoundInfo(t) ==
    LET entryWindowMs == ENTRY_WINDOW_MINUTES * 60 * 1000
        roundsSinceEpoch == t \div roundDurationMs
        currentStart == roundsSinceEpoch * roundDurationMs
        roundEndTime == currentStart + roundDurationMs
        timeUntilEnd == roundEndTime - t
        state == IF timeUntilEnd <= CompletionWindowMs /\ timeUntilEnd > 0
                 THEN "complete" ELSE "entry"
    IN  [id |-> roundsSinceEpoch,
         startTime |-> currentStart,
         entryEndTime |-> currentStart + entryWindowMs,
         state |-> state,
         timeRemaining |-> roundEndTime - t]

\* hasUserEnteredRound(roundId) over the entries map.
hasUserEnteredRound(entries, roundId) == roundId \in entries[USER_FID]

\* addUserEntry(roundId): the map with roundId added to the user's set.
addUserEntry(entries, roundId) == [entries EXCEPT ![USER_FID] = @ \cup {roundId}]

\* getLiveGameData(roundId) of the contract-backed hook.
getLiveGameData(entries, roundId) ==
    LET uniqueParticipants == Cardinality({f \in Fids : roundId \in entries[f]})
        totalCollected == uniqueParticipants * ENTRY_COST
        ownerFee == (totalCollected * PLATFORM_FEE_PERCENTAGE) \div 100
        actualPrizePool == totalCollected - ownerFee
    IN  [playerEntries |-> uniqueParticipants,
         prizePool |-> actualPrizePool,
         totalCollected |-> totalCollected,
         ownerFee |-> ownerFee,
         winnersShare |-> actualPrizePool]

(* -------------------------- generateChainMove -------------------------- *)
(* JavaScript's `>>` and `^` work on 32-bit integers and its `*` on         *)
(* doubles.  A 32-bit integer is kept here as its two 16-bit halves         *)
(* <<high, low>> in two's complement, and products are formed limb by      *)
(* limb, so that no intermediate value needs more than 31 bits.            *)

TwoTo16 == 256 * 256

RECURSIVE Pow2(_)
Pow2(k) == IF k = 0 THEN 1 ELSE 2 * Pow2(k - 1)

\* Bitwise exclusive or of two naturals.
RECURSIVE Xor(_, _)
Xor(a, b) ==
    IF a = 0 /\ b = 0 THEN 0
    ELSE (((a % 2) + (b % 2)) % 2) + 2 * Xor(a \div 2, b \div 2)

\* ToInt32 of a seed that is a natural below 2^31.
Halves(n) == <<n \div TwoTo16, n % TwoTo16>>

\* `(hash >> 16) ^ hash` on a 32-bit integer: the shift is arithmetic.
ShiftXor(x) ==
    LET ext == IF x[1] >= TwoTo16 \div 2 THEN TwoTo16 - 1 ELSE 0
    IN  <<Xor(ext, x[1]), Xor(x[1], x[2])>>

\* The 32-bit integer is negative.
Negative(x) == x[1] >= TwoTo16 \div 2

\* Two's complement negation, modulo 2^32.
Negate(x) ==
    <<(2 * TwoTo16 - x[1] - (IF x[2] = 0 THEN 0 ELSE 1)) % TwoTo16,
      (TwoTo16 - x[2]) % TwoTo16>>

\* The number of bits of a natural.
RECURSIVE BitLength(_)
BitLength(n) == IF n = 0 THEN 0 ELSE 1 + BitLength(n \div 2)

\* A double keeps 53 significant bits.
DoubleBits == 53

\* `x * 0x45d9f3b` for a 32-bit integer x, then ToInt32 of the product as
\* the next `>>` or `^` takes it.  The exact product of the magnitudes is
\* formed in 16-bit limbs P3 P2 P1 P0; the double that `*` returns is that
\* product rounded to DoubleBits significant bits, ties to even; ToInt32
\* keeps its low 32 bits, negated when x is negative.
MulHashConstant(x) ==
    LET kh == 1117       \* 0x045d
        kl == 40763      \* 0x9f3b
        m == IF Negative(x) THEN Negate(x) ELSE x
        mh == m[1]
        ml == m[2]
        t0 == (ml % 256) * kl
        t1 == (ml \div 256) * kl
        low == (t1 % 256) * 256 + t0
        P0 == low % TwoTo16
        c0 == (low \div TwoTo16) + (t1 \div 256)
        col1 == ml * kh + mh * kl + c0
        P1 == col1 % TwoTo16
        col2 == mh * kh + (col1 \div TwoTo16)
        P2 == col2 % TwoTo16
        P3 == col2 \div TwoTo16
        bits == IF P3 > 0 THEN 48 + BitLength(P3) ELSE 48
        k == IF bits > DoubleBits THEN bits - DoubleBits ELSE 0
        r == P0 % Pow2(k)
        up == /\ k > 0
              /\ \/ 2 * r > Pow2(k)
                 \/ 2 * r = Pow2(k) /\ (P0 \div Pow2(k)) % 2 = 1
        rounded == P0 - r + (IF up THEN Pow2(k) ELSE 0)
        mag == <<(P1 + (rounded \div TwoTo16)) % TwoTo16, rounded % TwoTo16>>
    IN  IF Negative(x) THEN Negate(mag) ELSE mag

\* `Math.abs(hash) % 3` of a 32-bit integer: 2^16 and 2^32 are 1 modulo 3.
AbsMod3(x) ==
    LET m == IF Negative(x) THEN Negate(x) ELSE x
    IN  (m[1] + m[2]) % 3

\* generateChainMove(roundId) called with Date.now() = t.
generateChainMove(roundId, t) ==
    LET seed == roundId * 1337 + (t \div (15 * 60 * 1000))
        hash1 == MulHashConstant(ShiftXor(Halves(seed)))
        hash2 == MulHashConstant(ShiftXor(hash1))
        hash3 == ShiftXor(hash2)
    IN  AbsMod3(hash3)

\* The state of the hook and of wagmi's two hooks, as one record.
HookState ==
    [now |-> now, currentRound |-> currentRound, gameState |-> gameState,
     playerChoice |-> playerChoice, playerEntries |-> playerEntries,
     winners |-> winners, isSubmitting |-> isSubmitting,
     paymentPendingChoice |-> paymentPendingChoice,
     isApproving |-> isApproving, isConfirming |-> isConfirming,
     writeRequest |-> writeRequest, hash |-> hash,
     writeError |-> writeError, isConfirmed |-> isConfirmed,
     potTransactionHash |-> potTransactionHash,
     creatorTransactionHash |-> creatorTransactionHash]

\* The next state is h.
Commit(h) ==
    /\ now' = h.now
    /\ currentRound' = h.currentRound
    /\ gameState' = h.gameState
    /\ playerChoice' = h.playerChoice
    /\ playerEntries' = h.playerEntries
    /\ winners' = h.winners
    /\ isSubmitting' = h.isSubmitting
    /\ paymentPendingChoice' = h.paymentPendingChoice
    /\ isApproving' = h.isApproving
    /\ isConfirming' = h.isConfirming
    /\ writeRequest' = h.writeRequest
    /\ hash' = h.hash
    /\ writeError' = h.writeError
    /\ isConfirmed' = h.isConfirmed
    /\ potTransactionHash' = h.potTransactionHash
    /\ creatorTransactionHash' = h.creatorTransactionHash

\* writeContract(call): a new request; data and error of the one before are gone.
writeContract(h, call) ==
    [h EXCEPT !.writeRequest = call, !.hash = NoTx,
              !.writeError = FALSE, !.isConfirmed = FALSE]

(* ------------------------- the one-second tick ------------------------ *)
\* The entrants of a round in the entries map.
allEntrants(entries, roundId) == {f \in Fids : roundId \in entries[f]}

\* Faulty variant: every entrant wins.
numWinnersAll(n) == n

\* `Math.max(1, Math.floor(allEntrants.length * 0.3))`
numWinners(n) == IF (n * 3) \div 10 > 1 THEN (n * 3) \div 10 ELSE 1

\* `!playerChoice` is true of null and of 0 (Rock).
Falsy(choice) == choice = NULL \/ choice = 0

\* Faulty variant: the tick does not look whether the round has a list.
GeneratesWinnersAgain(h, t) ==
    LET roundInfo == getCurrentRoundInfo(t)
    IN  /\ roundInfo.state = "complete"
        /\ allEntrants(h.playerEntries, roundInfo.id) # {}

\* The tick generates winners: the round is in its completion window and the
\* winners map has no list for it.
GeneratesWinners(h, t) ==
    LET roundInfo == getCurrentRoundInfo(t)
    IN  /\ roundInfo.state = "complete"
        /\ h.winners[roundInfo.id] = {}
        /\ allEntrants(h.playerEntries, roundInfo.id) # {}

\* What `sort(() => Math.random() - 0.5).slice(0, numWinners)` can select.
WinnerPicks(h, t) ==
    LET entrants == allEntrants(h.playerEntries, getCurrentRoundInfo(t).id)
    IN  IF GeneratesWinners(h, t)
        THEN {S \in SUBSET entrants : Cardinality(S) = numWinners(Cardinality(entrants))}
        ELSE {{}}

\* updateGameState() at Date.now() = t; roundWinners is the selection that
\* updateWinnersAndLeaderboard makes when it is called.  Of currentRound the
\* model keeps id, prizePool, playerEntries and isComplete.
updateGameState(h, t, roundWinners) ==
    LET roundInfo == getCurrentRoundInfo(t)
        liveData == getLiveGameData(h.playerEntries, roundInfo.id)
        isComplete == roundInfo.state = "complete"
        entered == hasUserEnteredRound(h.playerEntries, roundInfo.id)
        roundChanged == /\ h.paymentPendingChoice # NULL
                        /\ h.currentRound # NoRound
                        /\ h.currentRound.id # roundInfo.id
    IN  [h EXCEPT
           !.now = t,
           !.gameState = roundInfo.state,
           !.currentRound = [id |-> roundInfo.id, prizePool |-> liveData.prizePool,
                             playerEntries |-> liveData.playerEntries,
                             isComplete |-> isComplete],
           !.winners = IF GeneratesWinners(h, t)
                       THEN [@ EXCEPT ![roundInfo.id] = roundWinners] ELSE @,
           !.playerChoice = IF entered /\ Falsy(@) THEN 0
                            ELSE IF ~entered /\ ~Falsy(@) THEN NULL
                            ELSE @,
           !.paymentPendingChoice = IF roundChanged THEN NULL ELSE @,
           !.isSubmitting = IF roundChanged THEN FALSE ELSE @,
           !.isConfirming = IF roundChanged THEN FALSE ELSE @]

(* --------------------- approveUSDC, enterGame, ... --------------------- *)
\* The calls the hook hands to writeContract.
ApproveCall == [fn |-> "approve", round |-> NULL, choice |-> NULL]

EnterGameCallOf(roundId, choice) == [fn |-> "enterGame", round |-> roundId, choice |-> choice]

ClaimWinningsCallOf(roundId) == [fn |-> "claimWinnings", round |-> roundId, choice |-> NULL]

\* approveUSDC()
approveUSDC(h) == writeContract([h EXCEPT !.isApproving = TRUE], ApproveCall)

\* Faulty variant: a pending payment does not stop enterGame.
PaymentPendingNever(h) == FALSE

\* `if (paymentPendingChoice !== null) { ...; return; }`
PaymentPending(h) == h.paymentPendingChoice # NULL

\* The checks of enterGame that return without doing anything.
EnterGameReturnsEarly(h) ==
    \/ h.currentRound = NoRound
    \/ h.gameState # "entry"
    \/ hasUserEnteredRound(h.playerEntries, h.currentRound.id)
    \/ PaymentPending(h)

\* enterGame(choice) of the contract-backed hook.
hookEnterGame(h, choice) ==
    IF EnterGameReturnsEarly(h) THEN h
    ELSE writeContract([h EXCEPT !.isSubmitting = TRUE,
                                 !.paymentPendingChoice = choice],
                       EnterGameCallOf(h.currentRound.id, choice))

\* claimWinnings(roundId) of the contract-backed hook.
hookClaimWinnings(h, roundId) == writeContract(h, ClaimWinningsCallOf(roundId))

\* onPaymentCanceled()
onPaymentCanceled(h) ==
    [h EXCEPT !.isSubmitting = FALSE, !.paymentPendingChoice = NULL]

(* ------------------ "Handle transaction confirmations" ----------------- *)
\* Faulty variant: a failed write leaves the pending marker set.
OnWriteErrorKeepsPending(h, seen) ==
    IF seen.isApproving THEN [h EXCEPT !.isApproving = FALSE] ELSE h

\* The `if (writeError)` branch: seen is the state the effect's closure holds.
OnWriteError(h, seen) ==
    IF seen.isApproving THEN [h EXCEPT !.isApproving = FALSE]
    ELSE [h EXCEPT !.isSubmitting = FALSE, !.paymentPendingChoice = NULL]

\* Faulty variant: a confirmation records an entry with no payment pending.
OnConfirmedNoPending(h) ==
    IF h.isApproving THEN [h EXCEPT !.isApproving = FALSE]
    ELSE IF h.currentRound # NoRound
    THEN [h EXCEPT !.playerChoice = h.paymentPendingChoice,
                   !.playerEntries = addUserEntry(@, h.currentRound.id),
                   !.isSubmitting = FALSE,
                   !.paymentPendingChoice = NULL]
    ELSE h

\* The `if (isConfirmed && hash)` branch.
OnConfirmed(h) ==
    IF h.isApproving THEN [h EXCEPT !.isApproving = FALSE]
    ELSE IF h.paymentPendingChoice # NULL /\ h.currentRound # NoRound
    THEN [h EXCEPT !.playerChoice = h.paymentPendingChoice,
                   !.playerEntries = addUserEntry(@, h.currentRound.id),
                   !.isSubmitting = FALSE,
                   !.paymentPendingChoice = NULL]
    ELSE h

\* One run of the effect.
ConfirmationEffect(h) ==
    LET confirmed == IF h.isConfirmed /\ h.hash # NoTx THEN OnConfirmed(h) ELSE h
    IN  IF h.writeError THEN OnWriteError(confirmed, h) ELSE confirmed

\* The effect runs again whenever a run of it changed one of its
\* dependencies, until a run changes nothing.
RECURSIVE RunEffects(_)
RunEffects(h) ==
    LET e == ConfirmationEffect(h)
    IN  IF e = h THEN h ELSE RunEffects(e)

(* ------------------------- getUnclaimedWinnings ------------------------ *)
\* getUnclaimedWinnings() called with Date.now() = t: of each entry the
\* round and the winning choice, which is computed anew at every call.
\* claimedWinnings is only ever read from storage; it is empty here.
getUnclaimedWinnings(h, t) ==
    {[roundId |-> r,
      winningChoice |-> hookCalculateWinningChoice(generateChainMove(r, t))] :
        r \in {q \in Rounds : USER_FID \in h.winners[q]}}

(* ------------------------------ actions -------------------------------- *)
HookTick ==
    /\ \E t \in Instants :
         /\ t >= now
         /\ \E roundWinners \in WinnerPicks(HookState, t) :
              Commit(RunEffects(updateGameState(HookState, t, roundWinners)))
    /\ UNCHANGED <<contractVars, buttonVars>>

HookEnterGame ==
    /\ \E choice \in {0, 1, 2} : Commit(RunEffects(hookEnterGame(HookState, choice)))
    /\ UNCHANGED <<contractVars, buttonVars>>

HookApproveUSDC ==
    /\ Commit(RunEffects(approveUSDC(HookState)))
    /\ UNCHANGED <<contractVars, buttonVars>>

HookClaimWinnings ==
    /\ \E roundId \in Rounds : Commit(RunEffects(hookClaimWinnings(HookState, roundId)))
    /\ UNCHANGED <<contractVars, buttonVars>>

HookOnPaymentCanceled ==
    /\ Commit(RunEffects(onPaymentCanceled(HookState)))
    /\ UNCHANGED <<contractVars, buttonVars>>

\* The wallet signs the request and sends the transaction.
WalletSigns ==
    /\ writeRequest # NoTx /\ hash = NoTx /\ ~writeError
    /\ Commit(RunEffects([HookState EXCEPT !.hash = writeRequest]))
    /\ UNCHANGED <<contractVars, buttonVars>>

\* The request fails: the user rejects it or its simulation reverts.
WalletRejects ==
    /\ writeRequest # NoTx /\ hash = NoTx /\ ~writeError
    /\ Commit(RunEffects([HookState EXCEPT !.writeError = TRUE]))
    /\ UNCHANGED <<contractVars, buttonVars>>

\* The receipt of the transaction under `hash` arrives.  The contract's
\* claimWinnings always reverts, so there is none for it.
ReceiptArrives ==
    /\ hash # NoTx /\ ~isConfirmed
    /\ hash.fn # "claimWinnings"
    /\ Commit(RunEffects([HookState EXCEPT !.isConfirmed = TRUE]))
    /\ UNCHANGED <<contractVars, buttonVars>>

HookNext ==
    \/ HookTick
    \/ HookEnterGame
    \/ HookApproveUSDC
    \/ HookClaimWinnings
    \/ HookOnPaymentCanceled
    \/ WalletSigns
    \/ WalletRejects
    \/ ReceiptArrives

HookInit ==
    /\ Deployed
    /\ HookMounted

HookSpec == HookInit /\ [][HookNext]_vars

\* The hook on a live chain: the receipt of a transaction that was sent is
\* not withheld for ever (useWaitForTransactionReceipt polls until it has
\* it).  The effects of a step run within the step.
HookLiveSpec == HookSpec /\ WF_vars(ReceiptArrives)

(* ====================================================================== *)
(*     The hook's pay-widget variant and DaimoPayTransferButton            *)
(* ====================================================================== *)
(* The variant of the hook that is paid through a payment widget has no    *)
(* wagmi state: the page calls enterGame when a payment starts and         *)
(* onPaymentCompleted or onPaymentCanceled when the widget reports.  The   *)
(* button is wired to the hook as its property names say: onPaymentStarted *)
(* to enterGame, onPaymentCompleted and onPaymentCanceled to the hook's    *)
(* functions of the same names, each with the move the page has selected.  *)

\* getLiveGameData(roundId) of the pay-widget variant.
payGetLiveGameData(entries, roundId) ==
    LET uniqueParticipants == Cardinality({f \in Fids : roundId \in entries[f]})
        netContributionPerPlayer == ENTRY_COST - RAKE_AMOUNT
        prizePool == uniqueParticipants * netContributionPerPlayer
    IN  [playerEntries |-> uniqueParticipants,
         prizePool |-> IF prizePool > 0 THEN prizePool ELSE 0]

\* updateGameState() of the pay-widget variant: it differs in getLiveGameData.
payUpdateGameState(h, t, roundWinners) ==
    [updateGameState(h, t, roundWinners) EXCEPT
        !.currentRound.prizePool =
            payGetLiveGameData(h.playerEntries, getCurrentRoundInfo(t).id).prizePool]

\* enterGame(choice) of the pay-widget variant.
payEnterGame(h, choice) ==
    IF EnterGameReturnsEarly(h) THEN h
    ELSE [h EXCEPT !.isSubmitting = TRUE, !.paymentPendingChoice = choice]

\* The pending marker cleared.
ClearPending(h) ==
    [h EXCEPT !.isSubmitting = FALSE, !.isConfirming = FALSE,
              !.paymentPendingChoice = NULL]

\* Faulty variant: the choice is not compared with the pending one.
payOnPaymentCompletedAnyChoice(h, choice) ==
    IF h.currentRound = NoRound THEN ClearPending(h)
    ELSE IF hasUserEnteredRound(h.playerEntries, h.currentRound.id) THEN ClearPending(h)
    ELSE [ClearPending(h) EXCEPT !.playerChoice = choice,
                                 !.playerEntries = addUserEntry(@, h.currentRound.id)]

\* onPaymentCompleted(choice) of the pay-widget variant.
payOnPaymentCompleted(h, choice) ==
    IF h.currentRound = NoRound THEN ClearPending(h)
    ELSE IF hasUserEnteredRound(h.playerEntries, h.currentRound.id) THEN ClearPending(h)
    ELSE IF h.paymentPendingChoice # choice THEN ClearPending(h)
    ELSE [ClearPending(h) EXCEPT !.playerChoice = choice,
                                 !.playerEntries = addUserEntry(@, h.currentRound.id)]

\* onPaymentCanceled() of the pay-widget variant.
payOnPaymentCanceled(h) == ClearPending(h)

(* ----------------------- DaimoPayTransferButton ------------------------ *)
\* `if (isPaymentStarted)` inside the setTimeout callback: the callback was
\* created by the render in which handlePaymentStarted was created, and
\* reads the isPaymentStarted of that render (seen), not the current one.
TimeoutSees(seen, current) == seen

\* The timer ids that no armed timeout has.
FreeTimers == {n \in 1..MaxTimers : \A tm \in timers : tm.id # n}

\* handlePaymentStarted(): the timeout it arms keeps the isPaymentStarted of
\* the render; a timeout armed before stays armed.
ButtonHandlePaymentStarted ==
    /\ FreeTimers # {}
    /\ \E choice \in {0, 1, 2} :
         LET id == CHOOSE n \in FreeTimers : \A m \in FreeTimers : n <= m
         IN  /\ isPaymentStarted' = TRUE
             /\ Commit(payEnterGame(HookState, choice))
             /\ timers' = timers \cup {[id |-> id, seen |-> isPaymentStarted]}
             /\ timeoutRef' = id
    /\ UNCHANGED contractVars

\* handlePaymentCompleted(e): clears the timeout timeoutRef holds.
ButtonHandlePaymentCompleted ==
    /\ \E choice \in {0, 1, 2} :
         /\ isPaymentStarted' = FALSE
         /\ timers' = {tm \in timers : tm.id # timeoutRef}
         /\ timeoutRef' = NULL
         /\ Commit(payOnPaymentCompleted(HookState, choice))
    /\ UNCHANGED contractVars

\* Two minutes after it was armed, the timeout tm fires.
TimeoutFiresFor(tm) ==
    /\ tm \in timers
    /\ timers' = timers \ {tm}
    /\ IF TimeoutSees(tm.seen, isPaymentStarted)
       THEN /\ isPaymentStarted' = FALSE
            /\ Commit(payOnPaymentCanceled(HookState))
       ELSE /\ isPaymentStarted' = isPaymentStarted
            /\ Commit(HookState)
    /\ UNCHANGED <<contractVars, timeoutRef>>

TimeoutFires == \E tm \in timers : TimeoutFiresFor(tm)

PayTick ==
    /\ \E t \in Instants :
         /\ t >= now
         /\ \E roundWinners \in WinnerPicks(HookState, t) :
              Commit(payUpdateGameState(HookState, t, roundWinners))
    /\ UNCHANGED <<contractVars, buttonVars>>

\* The page calls enterGame when the user picks a move.
PayEnterGame ==
    /\ \E choice \in {0, 1, 2} : Commit(payEnterGame(HookState, choice))
    /\ UNCHANGED <<contractVars, buttonVars>>

PayNext ==
    \/ PayTick
    \/ PayEnterGame
    \/ ButtonHandlePaymentStarted
    \/ ButtonHandlePaymentCompleted
    \/ TimeoutFires

PaySpec == HookInit /\ [][PayNext]_vars

(* ====================================================================== *)
(*                  The hook's dual-transfer variant                       *)
(* ====================================================================== *)
(* The variant of the hook that pays an entry with two USDC transfers, one *)
(* to the pot address and one to the creator address, through the same two *)
(* wagmi hooks.  It does not recognise the transaction a confirmation      *)
(* belongs to: it tells the two payments apart by potTransactionHash and   *)
(* creatorTransactionHash, which it sets as the confirmations arrive.      *)

\* The calls the variant hands to writeContract.
PotTransferCall == [fn |-> "transfer(POT_ADDRESS, POT_AMOUNT)", round |-> NULL, choice |-> NULL]

CreatorTransferCall ==
    [fn |-> "transfer(CREATOR_ADDRESS, RAKE_AMOUNT)", round |-> NULL, choice |-> NULL]

\* updateGameState() of the variant.  Its effect has no dependencies, so the
\* interval keeps the function of the first render, which sees the state of
\* that render: no entries, no winners, no player choice, no pending payment
\* and no current round.  It sets the phase and the round, with the figures
\* of a round without entries.
dualUpdateGameState(h, t) ==
    LET roundInfo == getCurrentRoundInfo(t)
    IN  [h EXCEPT
           !.now = t,
           !.gameState = roundInfo.state,
           !.currentRound = [id |-> roundInfo.id, prizePool |-> 0,
                             playerEntries |-> 0,
                             isComplete |-> roundInfo.state = "complete"]]

\* enterGame(choice) of the variant: the first transfer.
dualEnterGame(h, choice) ==
    IF EnterGameReturnsEarly(h) THEN h
    ELSE writeContract([h EXCEPT !.isSubmitting = TRUE,
                                 !.paymentPendingChoice = choice],
                       PotTransferCall)

\* Both hashes and the pending marker cleared.
ClearDual(h) ==
    [h EXCEPT !.isSubmitting = FALSE, !.paymentPendingChoice = NULL,
              !.potTransactionHash = NoTx, !.creatorTransactionHash = NoTx]

\* The `if (isConfirmed && hash && paymentPendingChoice !== null &&
\* currentRound)` branch: a confirmation while potTransactionHash is null is
\* taken for the pot payment's and starts the second transfer; one while it
\* is set and creatorTransactionHash is null is taken for the creator
\* payment's and records the entry.
dualOnConfirmed(h) ==
    IF h.potTransactionHash = NoTx
    THEN writeContract([h EXCEPT !.potTransactionHash = h.hash], CreatorTransferCall)
    ELSE IF h.creatorTransactionHash = NoTx
    THEN [ClearDual(h) EXCEPT !.playerChoice = h.paymentPendingChoice,
                              !.playerEntries = addUserEntry(@, h.currentRound.id)]
    ELSE h

\* One run of the variant's confirmation effect.
dualConfirmationEffect(h) ==
    LET confirmed == IF /\ h.isConfirmed
                        /\ h.hash # NoTx
                        /\ h.paymentPendingChoice # NULL
                        /\ h.currentRound # NoRound
                     THEN dualOnConfirmed(h) ELSE h
    IN  IF h.writeError THEN ClearDual(confirmed) ELSE confirmed

\* The effect runs again while a run of it changed one of its dependencies.
RECURSIVE dualRunEffects(_)
dualRunEffects(h) ==
    LET e == dualConfirmationEffect(h)
    IN  IF e = h THEN h ELSE dualRunEffects(e)

DualTick ==
    /\ \E t \in Instants :
         /\ t >= now
         /\ Commit(dualRunEffects(dualUpdateGameState(HookState, t)))
    /\ UNCHANGED <<contractVars, buttonVars>>

DualEnterGame ==
    /\ \E choice \in {0, 1, 2} : Commit(dualRunEffects(dualEnterGame(HookState, choice)))
    /\ UNCHANGED <<contractVars, buttonVars>>

\* onPaymentCanceled() of the variant is that of the contract-backed hook.
DualOnPaymentCanceled ==
    /\ Commit(dualRunEffects(onPaymentCanceled(HookState)))
    /\ UNCHANGED <<contractVars, buttonVars>>

DualWalletSigns ==
    /\ writeRequest # NoTx /\ hash = NoTx /\ ~writeError
    /\ Commit(dualRunEffects([HookState EXCEPT !.hash = writeRequest]))
    /\ UNCHANGED <<contractVars, buttonVars>>

DualWalletRejects ==
    /\ writeRequest # NoTx /\ hash = NoTx /\ ~writeError
    /\ Commit(dualRunEffects([HookState EXCEPT !.writeError = TRUE]))
    /\ UNCHANGED <<contractVars, buttonVars>>

DualReceiptArrives ==
    /\ hash # NoTx /\ ~isConfirmed
    /\ Commit(dualRunEffects([HookState EXCEPT !.isConfirmed = TRUE]))
    /\ UNCHANGED <<contractVars, buttonVars>>

DualNext ==
    \/ DualTick
    \/ DualEnterGame
    \/ DualOnPaymentCanceled
    \/ DualWalletSigns
    \/ DualWalletRejects
    \/ DualReceiptArrives

DualSpec == HookInit /\ [][DualNext]_vars

(* ====================================================================== *)
(*                               Claims                                   *)
(* ====================================================================== *)
\* The three moves a player or the chain can make.
Moves == {0, 1, 2}

\* A sequence holds no element twice.
NoDuplicates(seq) == \A i, j \in 1..Len(seq) : seq[i] = seq[j] => i = j

\* The transaction left the contract's storage and every balance as they were.
NothingChanged == UNCHANGED <<rounds, currentRoundId, balance, paid>>

\* C1: no re-entry.  An enterGame by an account whose hasEntered flag is set
\* for the round reverts with AlreadyEntered and changes neither the round's
\* prizePool, playerEntries, players and playerChoices nor anything else, and
\* the players list of a round never holds the same account twice.
\* (The step formula reads: an enterGame transaction either is such a revert
\* or is no enterGame of an account already in the round; the token's outcomes
\* are fixed as EnterGame fixes them when the checks stop the call.)
C1_NoReentry ==
    /\ [](\A r \in Rounds : NoDuplicates(rounds[r].players))
    /\ [][last'.op = "enterGame" =>
             \/ last'.err = "AlreadyEntered" /\ NothingChanged
             \/ \A sender \in Players, roundId \in Rounds :
                  rounds[roundId].hasEntered[sender] =>
                    \A choice \in Moves :
                      ~EnterGameTx(sender, choice, roundId, "revert", "ok")]_vars

\* C1 witness: a second enterGame was sent for a round the sender is in.
C1_Witness ==
    /\ last.op = "enterGame"
    /\ last.err = "AlreadyEntered"
    /\ \E r \in Rounds : Len(rounds[r].players) >= 1

\* C2: enterGame is all-or-nothing with respect to payment.  When transferFrom
\* fails, or the rake transfer fails after transferFrom succeeded, the call
\* reverts, the caller is not entered, the round is as it was and no balance
\* has changed.  (The step formula reads: an enterGame transaction either is a
\* revert that left rounds, and so hasEntered, and all balances as they were,
\* or is no enterGame in which transferFrom failed, or succeeded and the rake
\* transfer failed.)
C2_PaymentAllOrNothing ==
    [][last'.op = "enterGame" =>
          \/ /\ last'.err \in {"TransferFailed", "TokenRevert"}
             /\ rounds' = rounds
             /\ balance' = balance
          \/ \A sender \in Players, roundId \in Rounds :
               ~rounds[roundId].hasEntered[sender] =>
                 \A choice \in Moves, pull \in TokenOutcomes :
                   \A rake \in IF pull = "ok" THEN {"false", "revert"} ELSE {"ok"} :
                     ~EnterGameTx(sender, choice, roundId, pull, rake)]_vars

\* C2 witness: the rake transfer, the second call into the token, returned
\* false while the contract already held an earlier entry's funds.
C2_Witness ==
    /\ last.op = "enterGame"
    /\ last.err = "TransferFailed"
    /\ last.tokenCalls = 2
    /\ \E r \in Rounds : rounds[r].prizePool > 0

\* C3: a successful enterGame charges the caller exactly 1,000,000, sends
\* exactly 90,000 to the rake address, raises the round's prizePool by exactly
\* 910,000, records the caller's choice and changes no other round; and in
\* every reachable state, for every round, prizePool = 910,000 x playerEntries
\* and playerEntries = length of players = number of accounts that entered.
C3_EntryAccounting ==
    /\ [](\A r \in Rounds :
            /\ rounds[r].prizePool = 910000 * rounds[r].playerEntries
            /\ rounds[r].playerEntries = Len(rounds[r].players)
            /\ rounds[r].playerEntries =
                  Cardinality({a \in Players : rounds[r].hasEntered[a]}))
    /\ [][(last'.op = "enterGame" /\ last'.err = "none") =>
           \A sender \in Players, choice \in Choices, roundId \in Rounds,
              pull \in TokenOutcomes, rake \in TokenOutcomes :
             EnterGameTx(sender, choice, roundId, pull, rake)
             => /\ balance'[sender] = balance[sender] - 1000000
                /\ balance'[RAKE_ADDRESS] = balance[RAKE_ADDRESS] + 90000
                /\ balance'[THIS] = balance[THIS] + 910000
                /\ \A a \in Players \ {sender} : balance'[a] = balance[a]
                /\ rounds'[roundId].prizePool = rounds[roundId].prizePool + 910000
                /\ rounds'[roundId].hasEntered[sender]
                /\ rounds'[roundId].playerChoices[sender] = choice
                /\ \A r \in Rounds \ {roundId} : rounds'[r] = rounds[r]]_vars

\* C3 witness: an entry was just accepted into a round that now has two.
C3_Witness ==
    /\ last.op = "enterGame"
    /\ last.err = "none"
    /\ \E r \in Rounds : rounds[r].playerEntries = 2 /\ rounds[r].prizePool = 1820000

\* C4 (as claimed): once a round is settled, enterGame for it is rejected and
\* the round's prizePool and entries never change again.
C4_ClosedAfterSettlement ==
    [][last'.op = "enterGame" =>
          \A roundId \in Rounds :
            rounds[roundId].isComplete =>
              \A sender \in Players, choice \in Moves,
                 pull \in TokenOutcomes, rake \in TokenOutcomes :
                EnterGameTx(sender, choice, roundId, pull, rake)
                => /\ last'.err # "none"
                   /\ rounds'[roundId].prizePool = rounds[roundId].prizePool
                   /\ rounds'[roundId].players = rounds[roundId].players]_vars

\* The token's outcomes in a transaction that attempts no transfer.
NoTransfer == [p \in Players |-> "ok"]

\* C5: settlement is idempotent and irreversible.  isComplete never goes back
\* to false, and a completeRound for a settled round, with any valid move,
\* returns without changing chainMove, hasClaimed, prizePool or any balance
\* and without a call into the token.  (The second part reads: a completeRound
\* transaction either is such a return or is no completeRound of the owner
\* for a settled round.)
C5_SettleOnce ==
    [][/\ \A r \in Rounds : rounds[r].isComplete => rounds'[r].isComplete
       /\ last'.op = "completeRound" =>
            \/ /\ last'.err = "none"
               /\ last'.tokenCalls = 0
               /\ last'.events = {}
               /\ NothingChanged
            \/ \A roundId \in Rounds :
                 rounds[roundId].isComplete =>
                   \A chainMove \in Moves :
                     ~CompleteRoundTx(OWNER, roundId, chainMove, NoTransfer, "false")]_vars

\* C5 witness: completeRound returned without the RoundCompleted event, on a
\* round whose winner had been paid by the first settlement.
C5_Witness ==
    /\ last.op = "completeRound"
    /\ last.err = "none"
    /\ "RoundCompleted" \notin last.events
    /\ \E r \in Rounds, a \in Players : rounds[r].isComplete /\ paid[r][a] > 0

\* The sum of f over the set S.
RECURSIVE SumOver(_, _)
SumOver(f, S) ==
    IF S = {} THEN 0
    ELSE LET x == CHOOSE y \in S : TRUE IN f[x] + SumOver(f, S \ {x})

\* The entrants of a round whose choice beats chainMove.
WinnersOf(round, chainMove) ==
    {a \in Players : round.hasEntered[a] /\ round.playerChoices[a] = (chainMove + 1) % 3}

\* C6: the total the contract has transferred to players for a round never
\* exceeds the round's prizePool, and no account receives more than one share
\* for a round: a payment goes to an account not yet paid for the round and
\* is the pool divided by the number of winners.
C6_PayoutBounded ==
    /\ [](\A r \in Rounds : SumOver(paid[r], Players) <= rounds[r].prizePool)
    /\ [][\A r \in Rounds, a \in Players :
             paid'[r][a] # paid[r][a]
             => /\ paid[r][a] = 0
                /\ paid'[r][a] = rounds[r].prizePool
                                   \div Cardinality(WinnersOf(rounds[r], rounds'[r].chainMove))]_vars

\* C6 witness: two winners of one round were each paid half of its pool.
C6_Witness ==
    \E r \in Rounds :
        /\ rounds[r].prizePool = 1820000
        /\ \A a \in Players : paid[r][a] = 910000

\* C7 (as claimed): when a round with prizePool P and n >= 1 winners is
\* resolved, each winner is paid exactly floor(P / n), the sum disbursed is
\* floor(P / n) x n, and the rest stays in the contract.
C7_EveryWinnerPaidFloorShare ==
    [][\A r \in Rounds :
          (~rounds[r].isComplete /\ rounds'[r].isComplete)
          => LET W == WinnersOf(rounds[r], rounds'[r].chainMove)
                 P == rounds[r].prizePool
                 n == Cardinality(W)
             IN  n >= 1 =>
                   /\ \A a \in W : paid'[r][a] = P \div n
                   /\ SumOver(paid'[r], Players) = (P \div n) * n
                   /\ balance'[THIS] = balance[THIS] - (P \div n) * n]_vars

\* C8 (as claimed): the accounts paid by completeRound(r, m) are exactly the
\* accounts that entered r with the choice that beats m.
C8_PaidAreExactlyTheWinners ==
    [][\A r \in Rounds :
          (~rounds[r].isComplete /\ rounds'[r].isComplete)
          => {a \in Players : paid'[r][a] > paid[r][a]}
               = WinnersOf(rounds[r], rounds'[r].chainMove)]_vars

\* C9: the winning move is (outcomeMove + 1) mod 3 for each of the three
\* moves, the contract's and the hook's calculateWinningChoice agree on them,
\* and it is the move settlement pays.
C9_WinningChoice ==
    /\ [](/\ \A m \in Moves :
               /\ calculateWinningChoice(m) = (m + 1) % 3
               /\ hookCalculateWinningChoice(m) = calculateWinningChoice(m)
          /\ \A r \in Rounds : rounds[r].isComplete =>
               /\ rounds[r].chainMove \in Moves
               /\ \A a \in Players : rounds[r].hasClaimed[a] =>
                     rounds[r].playerChoices[a]
                       = hookCalculateWinningChoice(rounds[r].chainMove))
    /\ [][\A r \in Rounds, a \in Players :
             paid'[r][a] > paid[r][a]
             => rounds[r].playerChoices[a] = (rounds'[r].chainMove + 1) % 3]_vars

\* C9 witness: the chain played Scissors (2) and a player who chose Rock (0)
\* was paid.
C9_Witness ==
    \E r \in Rounds, a \in Players :
        /\ rounds[r].isComplete
        /\ rounds[r].chainMove = 2
        /\ rounds[r].playerChoices[a] = 0
        /\ paid[r][a] > 0

\* C10: settling a round that has entries but no entrant with the winning
\* move succeeds, makes no transfer, sets no hasClaimed flag and leaves the
\* round's prizePool and the contract's balance as they were, while chainMove
\* and isComplete are recorded.
C10_NoWinners ==
    [][last'.op = "completeRound" =>
        \A roundId \in Rounds, chainMove \in Moves :
          (/\ ~rounds[roundId].isComplete
           /\ Len(rounds[roundId].players) >= 1
           /\ WinnersOf(rounds[roundId], chainMove) = {}) =>
        \A tok \in [Players -> TokenOutcomes], onShort \in {"false", "revert"} :
          CompleteRoundTx(OWNER, roundId, chainMove, tok, onShort)
          => /\ last'.err = "none"
             /\ last'.tokenCalls = 0
             /\ balance' = balance
             /\ paid' = paid
             /\ rounds'[roundId].hasClaimed = rounds[roundId].hasClaimed
             /\ rounds'[roundId].prizePool = rounds[roundId].prizePool
             /\ rounds'[roundId].chainMove = chainMove
             /\ rounds'[roundId].isComplete]_vars

\* C10 witness: a round with two entries and no winner was just settled, and
\* its pool is still in the contract.
C10_Witness ==
    /\ last.op = "completeRound"
    /\ last.err = "none"
    /\ last.events = {"RoundCompleted"}
    /\ \E r \in Rounds :
          /\ rounds[r].isComplete
          /\ rounds[r].playerEntries = 2
          /\ WinnersOf(rounds[r], rounds[r].chainMove) = {}
          /\ \A a \in Players : ~rounds[r].hasClaimed[a]
          /\ balance[THIS] >= rounds[r].prizePool

\* C11: settling a round that has no entries finds prizePool 0 and only
\* records the outcome: chainMove and isComplete are set, the call makes no
\* transfer, and nothing else changes, neither another field of the round nor
\* another round nor a balance.
C11_EmptyRound ==
    [][last'.op = "completeRound" =>
        \A roundId \in Rounds, chainMove \in Moves :
          (/\ ~rounds[roundId].isComplete
           /\ Len(rounds[roundId].players) = 0
           /\ CompleteRoundTx(OWNER, roundId, chainMove, NoTransfer, "false"))
          => /\ rounds[roundId].prizePool = 0
             /\ last'.err = "none"
             /\ last'.tokenCalls = 0
             /\ rounds' = [rounds EXCEPT ![roundId].chainMove = chainMove,
                                         ![roundId].isComplete = TRUE]
             /\ UNCHANGED <<currentRoundId, balance, paid>>]_vars

\* C11 witness: a round nobody entered was just settled with Scissors.
C11_Witness ==
    /\ last.op = "completeRound"
    /\ last.events = {"RoundCompleted"}
    /\ \E r \in Rounds :
          /\ rounds[r].isComplete
          /\ rounds[r].chainMove = 2
          /\ rounds[r].playerEntries = 0
          /\ \A q \in Rounds \ {r} : ~rounds[q].isComplete

\* C12: in a settlement, a transfer that returns false for one winner neither
\* prevents the transfers to the winners after it in the players list nor
\* rolls back those made to the winners before it: the call returns, and
\* every other winner whose own transfer succeeds has received the share.
\* (Stated for a contract that holds the round's pool, so that no transfer
\* fails for want of funds, and for a token that reverts on no transfer.)
C12_FailedTransferIsLocal ==
    [][last'.op = "completeRound" =>
        \A roundId \in Rounds, chainMove \in Moves :
          (~rounds[roundId].isComplete /\ balance[THIS] >= rounds[roundId].prizePool) =>
            LET W == WinnersOf(rounds[roundId], chainMove)
                share == rounds[roundId].prizePool \div Cardinality(W)
            IN  \A tok \in [Players -> {"ok", "false"}] :
                  ((\E a \in W : tok[a] = "false")
                   /\ CompleteRoundTx(OWNER, roundId, chainMove, tok, "false"))
                  => /\ last'.err = "none"
                     /\ rounds'[roundId].isComplete
                     /\ \A b \in W :
                          tok[b] = "ok" => /\ paid'[roundId][b] = share
                                           /\ balance'[b] = balance[b] + share]_vars

\* C12 witness: of the two winners of a round the first in the players list
\* was not paid and the second was.
C12_Witness ==
    /\ last.op = "completeRound"
    /\ last.err = "none"
    /\ last.tokenCalls = 2
    /\ \E r \in Rounds :
          /\ rounds[r].isComplete
          /\ Len(rounds[r].players) = 2
          /\ \A a \in Players : rounds[r].hasClaimed[a]
          /\ paid[r][rounds[r].players[1]] = 0
          /\ paid[r][rounds[r].players[2]] = 910000

\* C13 (as claimed): the claimed record of a round holds only accounts that
\* received their share: hasClaimed[p] is true only if the transfer of the
\* share to p succeeded.  (The claim goes on: a winner whose transfer failed
\* can still be paid later; a winner with the flag set and nothing received
\* already contradicts its first half.)
C13_ClaimedOnlyIfPaid ==
    \A r \in Rounds, p \in Players :
        rounds[r].hasClaimed[p] => paid[r][p] > 0

\* C14: in every reachable state hasClaimed[p] is true for round r only if r
\* is complete, p entered r and p's choice is the winning choice of r's
\* chainMove; and the flag, once set, is never cleared (so it is set at most
\* once).
C14_ClaimedOnlyWinners ==
    /\ [](\A r \in Rounds, p \in Players :
            rounds[r].hasClaimed[p] =>
              /\ rounds[r].isComplete
              /\ rounds[r].hasEntered[p]
              /\ \E i \in 1..Len(rounds[r].players) : rounds[r].players[i] = p
              /\ rounds[r].playerChoices[p] = calculateWinningChoice(rounds[r].chainMove))
    /\ [][\A r \in Rounds, p \in Players :
             rounds[r].hasClaimed[p] => rounds'[r].hasClaimed[p]]_vars

\* C14 witness: a settled round holds a winner with the flag set and a second
\* account, entered after the settlement with the same choice, without it.
C14_Witness ==
    \E r \in Rounds, p \in Players, q \in Players :
        /\ rounds[r].isComplete
        /\ rounds[r].players = <<p, q>>
        /\ rounds[r].playerChoices[p] = rounds[r].playerChoices[q]
        /\ rounds[r].hasClaimed[p]
        /\ ~rounds[r].hasClaimed[q]

\* C15: a move outside {0,1,2} is rejected with InvalidChoice and no state
\* change.  enterGame(choice, r) with choice > 2 reverts with InvalidChoice
\* before any call into the token, charges nothing and records nothing;
\* completeRound(r, chainMove) with chainMove > 2 reverts and leaves every
\* round as it was, with InvalidChoice when the owner sent it (onlyOwner is
\* the first modifier, so any other sender is turned away by it).  (The step
\* formula reads: a transaction either is such a revert or is no enterGame,
\* and no completeRound, with a move above 2; the token's outcomes are fixed
\* as the actions fix them when a check stops the call.)
C15_InvalidChoice ==
    [][/\ last'.op = "enterGame" =>
            \/ /\ last'.err = "InvalidChoice"
               /\ last'.tokenCalls = 0
               /\ NothingChanged
            \/ \A sender \in Players, roundId \in Rounds, choice \in Choices \ Moves :
                 ~EnterGameTx(sender, choice, roundId, "revert", "ok")
       /\ last'.op = "completeRound" =>
            \/ /\ last'.err \in {"InvalidChoice", "NotOwner"}
               /\ last'.tokenCalls = 0
               /\ NothingChanged
               /\ last'.err = "InvalidChoice"
                  \/ \A roundId \in Rounds, chainMove \in Choices \ Moves :
                       ~CompleteRoundTx(OWNER, roundId, chainMove, NoTransfer, "false")
            \/ \A sender \in Senders, roundId \in Rounds, chainMove \in Choices \ Moves :
                 ~CompleteRoundTx(sender, roundId, chainMove, NoTransfer, "false")]_vars

\* C15 witness: the owner's completeRound with a move above 2 was rejected on
\* a round that has an entry and is still unsettled.
C15_Witness ==
    /\ last.op = "completeRound"
    /\ last.err = "InvalidChoice"
    /\ \E r \in Rounds : rounds[r].playerEntries >= 1 /\ ~rounds[r].isComplete

\* C16: settlement and emergency withdrawal are privileged.  completeRound
\* and emergencyWithdraw sent by any address other than the owner revert and
\* change no round and no balance; so a round's isComplete and chainMove
\* change, and the contract's balance goes down, only in a completeRound or
\* emergencyWithdraw that did not revert, which is one the owner sent.
C16_OnlyOwner ==
    [][/\ last'.op = "completeRound" =>
            \A sender \in Senders \ {OWNER}, roundId \in Rounds, chainMove \in Choices :
              CompleteRoundTx(sender, roundId, chainMove, NoTransfer, "false")
              => /\ last'.err = "NotOwner"
                 /\ last'.tokenCalls = 0
                 /\ NothingChanged
       /\ last'.op = "emergencyWithdraw" =>
            \A sender \in Senders \ {OWNER} :
              EmergencyWithdrawTx(sender, "ok")
              => /\ last'.err = "NotOwner"
                 /\ last'.tokenCalls = 0
                 /\ NothingChanged
       /\ (\/ balance'[THIS] < balance[THIS]
           \/ \E r \in Rounds : \/ rounds'[r].isComplete # rounds[r].isComplete
                                 \/ rounds'[r].chainMove # rounds[r].chainMove)
          => /\ last'.op \in {"completeRound", "emergencyWithdraw"}
             /\ last'.err = "none"]_vars

\* C16 witness: an emergencyWithdraw was turned away with NotOwner while the
\* contract held a round's pool.
C16_Witness ==
    /\ last.op = "emergencyWithdraw"
    /\ last.err = "NotOwner"
    /\ balance[THIS] > 0
    /\ \E r \in Rounds : rounds[r].prizePool = balance[THIS] /\ ~rounds[r].isComplete

\* C17 (as claimed): in the contract-backed hook the user is added to the
\* entry ledger only on the confirmation of the enterGame transaction that
\* was started for the pending choice: whenever an entry is recorded, the
\* transaction whose receipt the hook holds is an enterGame with the choice
\* that was pending, and never another one such as a USDC approve.
C17_EntryOnlyOnOwnConfirmation ==
    [][playerEntries' # playerEntries =>
          /\ isConfirmed'
          /\ hash'.fn = "enterGame"
          /\ hash'.choice = playerChoice']_vars

\* The user is in the entry phase of a round he has not entered.
CanStillEnter(h) ==
    /\ h.currentRound # NoRound
    /\ h.gameState = "entry"
    /\ ~hasUserEnteredRound(h.playerEntries, h.currentRound.id)

\* The state h has no entry that the ledger `entries` lacks, and the
\* participant count and prize pool of every round are those of `entries`.
SameLedger(h, entries) ==
    /\ h.playerEntries = entries
    /\ \A r \in Rounds :
         /\ hasUserEnteredRound(h.playerEntries, r) = hasUserEnteredRound(entries, r)
         /\ getLiveGameData(h.playerEntries, r) = getLiveGameData(entries, r)
         /\ payGetLiveGameData(h.playerEntries, r) = payGetLiveGameData(entries, r)

\* C18: when an entry payment fails or is canceled the user is not entered:
\* after a failed write (writeError) and after onPaymentCanceled, in either
\* variant of the hook, hasUserEnteredRound, the participant count and the
\* prize pool are what they were, paymentPendingChoice is null and
\* isSubmitting false, and in the entry phase of a round the user has not
\* entered a new enterGame is accepted: it sets the pending choice and, in
\* the contract-backed variant, starts the transaction.
C18_FailedPaymentLeavesNoEntry ==
    /\ [][(WalletRejects \/ HookOnPaymentCanceled) =>
            /\ SameLedger(HookState', playerEntries)
            /\ paymentPendingChoice' = NULL
            /\ ~isSubmitting'
            /\ CanStillEnter(HookState') =>
                 \A choice \in Moves :
                   LET e == hookEnterGame(HookState', choice)
                   IN  /\ e.paymentPendingChoice = choice
                       /\ e.writeRequest = EnterGameCallOf(currentRound'.id, choice)
                       /\ ~e.writeError]_vars
    /\ [](LET c == payOnPaymentCanceled(HookState)
          IN  /\ SameLedger(c, playerEntries)
              /\ c.paymentPendingChoice = NULL
              /\ ~c.isSubmitting
              /\ CanStillEnter(c) =>
                   \A choice \in Moves :
                     payEnterGame(c, choice).paymentPendingChoice = choice)

\* C18 witness: the wallet rejected the enterGame request of a user who can
\* still enter the round, and the marker is clear.
C18_Witness ==
    /\ writeError
    /\ writeRequest.fn = "enterGame"
    /\ writeRequest.round = currentRound.id
    /\ CanStillEnter(HookState)
    /\ paymentPendingChoice = NULL
    /\ ~isSubmitting

\* C19: while a payment is pending, a second enterGame with any choice
\* starts no transaction and leaves the pending choice, and everything else,
\* as it was, in either variant of the hook; and a pending payment changes
\* neither hasUserEnteredRound nor the participant count and prize pool of
\* getLiveGameData: no step that ends with a payment pending has changed them.
C19_PendingBlocksSecondEntry ==
    /\ [](paymentPendingChoice # NULL =>
            \A choice \in Moves :
              /\ hookEnterGame(HookState, choice) = HookState
              /\ payEnterGame(HookState, choice) = HookState)
    /\ [][paymentPendingChoice' # NULL => SameLedger(HookState', playerEntries)]_vars

\* C19 witness: the user's enterGame transaction is in flight, for a round
\* that another user of the device has entered.
C19_Witness ==
    /\ paymentPendingChoice # NULL
    /\ isSubmitting
    /\ hash = EnterGameCallOf(currentRound.id, paymentPendingChoice)
    /\ gameState = "entry"
    /\ getLiveGameData(playerEntries, currentRound.id).playerEntries = 1
    /\ ~hasUserEnteredRound(playerEntries, currentRound.id)

\* C20 (as claimed): in DaimoPayTransferButton, when a payment has started
\* and the two-minute timeout fires before the payment completed, the payment
\* is treated as canceled: onPaymentCanceled is invoked, so the hook's pending
\* marker is cleared.
C20_TimeoutCancels ==
    [][\A tm \in timers :
          (isPaymentStarted /\ tm.id = timeoutRef /\ TimeoutFiresFor(tm))
          => /\ paymentPendingChoice' = NULL
             /\ ~isSubmitting']_vars

\* Fifteen minutes, in milliseconds.
FifteenMinutesMs == 15 * 60 * 1000

\* Clock readings around the boundaries of every round and of its
\* completion window, the round after the last one included.
ClockSamples ==
    {r * FifteenMinutesMs + o :
        r \in 0..(MaxRound + 1),
        o \in {0, 1, FifteenMinutesMs - 30001, FifteenMinutesMs - 30000,
               FifteenMinutesMs - 1}}

\* C21: getCurrentRoundInfo depends on the clock alone: at every reading now,
\* id = floor(now / D) with D fifteen minutes, startTime = id * D and
\* startTime <= now < startTime + D; a later reading never gives a smaller
\* id; and the round the hook holds is the one of the reading it was
\* computed at, whatever else the hook's state is.
C21_RoundInfoIsAFunctionOfTime ==
    /\ \A t \in ClockSamples :
         LET info == getCurrentRoundInfo(t)
         IN  /\ info.id = t \div FifteenMinutesMs
             /\ info.startTime = info.id * FifteenMinutesMs
             /\ info.startTime <= t
             /\ t < info.startTime + FifteenMinutesMs
             /\ \A u \in ClockSamples :
                  t <= u => info.id <= getCurrentRoundInfo(u).id
    /\ currentRound # NoRound =>
         /\ currentRound.id = getCurrentRoundInfo(now).id
         /\ currentRound.id = now \div FifteenMinutesMs

\* C21 witness: the clock has reached the completion window of the second
\* round and the hook holds that round.
C21_Witness ==
    /\ currentRound # NoRound
    /\ currentRound.id = 1
    /\ now = 2 * FifteenMinutesMs - 30000
    /\ gameState = "complete"

\* C22 (as claimed): the phase the hook shows is "entry" at every clock
\* reading now with roundStart <= now < roundStart + W, W being the
\* configured entry window of ENTRY_WINDOW_MINUTES minutes.
C22_EntryPhaseThroughoutWindow ==
    currentRound # NoRound =>
        LET info == getCurrentRoundInfo(now)
            W == ENTRY_WINDOW_MINUTES * 60 * 1000
        IN  (info.startTime <= now /\ now < info.startTime + W)
                => /\ info.state = "entry"
                   /\ gameState = "entry"

\* C23: the tick settles a round at most once: the winner list of a round
\* changes only from "none" to a list, in a tick that finds the round in its
\* completion window, and the list is drawn from the round's entrants; once
\* a round has a list no later step replaces or changes it.
C23_WinnersAssignedOnce ==
    [][\A r \in Rounds :
          winners'[r] # winners[r] =>
              /\ winners[r] = {}
              /\ winners'[r] # {}
              /\ winners'[r] \subseteq allEntrants(playerEntries, r)
              /\ gameState' = "complete"
              /\ currentRound'.id = r]_vars

\* C23 witness: the first round had two entrants and got its list, and the
\* ticks have gone on into the completion window of the next round.
C23_Witness ==
    /\ winners[0] # {}
    /\ Cardinality(allEntrants(playerEntries, 0)) = 2
    /\ currentRound # NoRound
    /\ currentRound.id = 1
    /\ gameState = "complete"

\* C24 (as claimed): the winners the hook records for a round are exactly
\* the players who entered it with the winning choice.  The hook knows the
\* choice of one entrant, the user: when the list of a round is generated
\* the user is on it if and only if he entered the round and his choice is
\* the round's winning choice; so a round whose only entrant is the user,
\* with another choice, gets no winners.
C24_WinnersChoseTheWinningMove ==
    [][\A r \in Rounds :
          winners'[r] # winners[r] =>
              LET winningChoice ==
                      hookCalculateWinningChoice(generateChainMove(r, now'))
              IN  USER_FID \in winners'[r]
                      <=> /\ hasUserEnteredRound(playerEntries, r)
                          /\ playerChoice = winningChoice]_vars

\* C25 (as claimed): once the winners of a round have been generated no
\* further entry is recorded for that round: its entrants, its participant
\* count and its prize pool, and so each winner's share, stay as they are,
\* also when a payment started in the entry phase is confirmed later.
C25_SettledRoundIsFrozen ==
    [][\A r \in Rounds :
          winners[r] # {} =>
              /\ allEntrants(playerEntries', r) = allEntrants(playerEntries, r)
              /\ getLiveGameData(playerEntries', r) = getLiveGameData(playerEntries, r)
              /\ payGetLiveGameData(playerEntries', r)
                     = payGetLiveGameData(playerEntries, r)]_vars

\* A clock reading in the completion window of round r, when the tick
\* derives the round's chain move and shows its winning choice.
CompletionOf(r) == (r + 1) * FifteenMinutesMs - 30000

\* C26 (as claimed): the outcome of a round never changes once derived: the
\* winning choice that getUnclaimedWinnings computes for a past round, at
\* whatever time it is called, is the one shown when the round completed.
C26_OutcomeNeverChanges ==
    \A u \in getUnclaimedWinnings(HookState, now) :
        u.winningChoice
            = hookCalculateWinningChoice(
                  generateChainMove(u.roundId, CompletionOf(u.roundId)))

\* The state pre with the players of round roundId in the order f, a
\* permutation of their positions: the state the same entries leave when
\* they arrive in that order, everything else being recorded per address.
Reordered(pre, roundId, f) ==
    [pre EXCEPT !.rounds[roundId].players = [i \in DOMAIN @ |-> @[f[i]]]]

\* C27 (as claimed): settlement depends on the set of entries and not on
\* their order: whenever completeRound runs on a round, the same call on the
\* state in which the same entries arrived in any other order ends the same
\* way, with the same prize pool, the same winners and the same amount paid
\* to each of them.
C27_SettlementIgnoresEntryOrder ==
    [][\A roundId \in Rounds, chainMove \in Moves, onShort \in {"false", "revert"} :
          CompleteRoundTx(OWNER, roundId, chainMove, NoTransfer, onShort) =>
              \A f \in Permutations(DOMAIN rounds[roundId].players) :
                  LET other == CompleteRoundCall(Reordered(Pre, roundId, f), OWNER,
                                                 roundId, chainMove, NoTransfer, onShort)
                  IN  /\ other.err = last'.err
                      /\ other.rounds[roundId].prizePool = rounds'[roundId].prizePool
                      /\ WinnersOf(other.rounds[roundId], chainMove)
                             = WinnersOf(rounds'[roundId], chainMove)
                      /\ \A p \in Players :
                             SumTo(other.transfers, p)
                                 = paid'[roundId][p] - paid[roundId][p]]_vars

\* C29 (as claimed): the choice query tells "no entry" from a move: for a
\* participant who has not entered the round it returns none, which is no
\* move, and for one who entered it returns the move submitted.
C29_ChoiceOrNone ==
    \A roundId \in Rounds, player \in Players :
        IF rounds[roundId].hasEntered[player]
        THEN getPlayerChoice(roundId, player) \in Moves
        ELSE getPlayerChoice(roundId, player) \notin Moves

C28_EntryOnlyAfterBothPayments ==
    [][playerEntries' # playerEntries =>
          /\ isConfirmed'
          /\ hash' = CreatorTransferCall
          /\ potTransactionHash = PotTransferCall]_vars

\* C31: in the pay-widget variant onPaymentCompleted(choice) always clears
\* the pending marker, and it records an entry exactly when there is a
\* current round the user has not entered and a payment is pending with that
\* same choice; the entry is then for the current round, with that choice,
\* and nothing else is recorded.  No step of the page records an entry
\* otherwise.
C31_CompletionNeedsPendingChoice ==
    /\ [](\A choice \in Moves :
            LET c == payOnPaymentCompleted(HookState, choice)
                accepted == /\ currentRound # NoRound
                            /\ paymentPendingChoice = choice
                            /\ ~hasUserEnteredRound(playerEntries, currentRound.id)
            IN  /\ c.paymentPendingChoice = NULL
                /\ ~c.isSubmitting
                /\ ~c.isConfirming
                /\ IF accepted
                   THEN /\ c.playerEntries = addUserEntry(playerEntries, currentRound.id)
                        /\ c.playerChoice = choice
                   ELSE /\ c.playerEntries = playerEntries
                        /\ c.playerChoice = playerChoice)
    /\ [][playerEntries' # playerEntries =>
            /\ paymentPendingChoice # NULL
            /\ playerChoice' = paymentPendingChoice
            /\ paymentPendingChoice' = NULL
            /\ playerEntries' = addUserEntry(playerEntries, currentRound.id)
            /\ ~hasUserEnteredRound(playerEntries, currentRound.id)]_vars

\* C31 witness: the payment of the user's pending Scissors was completed and
\* the entry for the current round recorded.
C31_Witness ==
    /\ currentRound # NoRound
    /\ hasUserEnteredRound(playerEntries, currentRound.id)
    /\ playerChoice = 2
    /\ paymentPendingChoice = NULL
    /\ ~isSubmitting
    /\ ~isPaymentStarted

\* What the contract still owes to the rounds: of every round the prize pool
\* less what the round's settlement has paid out.
Owed ==
    SumOver([r \in Rounds |->
                rounds[r].prizePool - SumOver(paid[r], Players)], Rounds)

\* C32: solvency without emergencyWithdraw: after any sequence of enterGame
\* and completeRound calls the contract's token balance is at least the sum
\* over all rounds of the prize pool less the amount paid out for the round;
\* so no settlement lacks the funds for its winners: with a token that does
\* every transfer the balance covers and reverts on any other, completeRound
\* by the owner reverts for no round and no move.
C32_Solvent ==
    /\ balance[THIS] >= Owed
    /\ \A roundId \in Rounds, chainMove \in Moves :
         CompleteRoundCall(Pre, OWNER, roundId, chainMove, NoTransfer, "revert").err
             = "none"

\* C32 witness: one round was settled and its winner paid while the other
\* round still holds the pool of an entry.
C32_Witness ==
    /\ last.op = "completeRound"
    /\ \E r \in Rounds : rounds[r].isComplete /\ \E p \in Players : paid[r][p] > 0
    /\ \E r \in Rounds : ~rounds[r].isComplete /\ rounds[r].prizePool > 0
    /\ balance[THIS] > 0

\* C33 (as claimed): after every tick of updateGameState, if the user has no
\* recorded entry for the round the tick makes current then playerChoice is
\* null, whatever move (Rock 0, Paper 1 or Scissors 2) was held before.
C33_NoEntryNoChoice ==
    \A t \in {i \in Instants : i >= now} :
        \A roundWinners \in WinnerPicks(HookState, t) :
            LET h == RunEffects(updateGameState(HookState, t, roundWinners))
            IN  ~hasUserEnteredRound(h.playerEntries, h.currentRound.id)
                    => h.playerChoice = NULL

\* C34: the hook records an entry only under the round id that was current
\* when the enterGame of the pending payment was called.  A payment becomes
\* pending only by an enterGame for the round then current, which stays
\* current in that step; a pending payment is never replaced by another;
\* every step that makes another round current while a payment is pending
\* drops the pending payment and records nothing; and every step that
\* records an entry does so for a pending payment, under the id of the round
\* that is and stays current.
C34_EntryUnderInitiatedRound ==
    [][/\ (paymentPendingChoice = NULL /\ paymentPendingChoice' # NULL)
             => /\ currentRound # NoRound /\ currentRound' = currentRound
                /\ writeRequest'
                     = EnterGameCallOf(currentRound.id, paymentPendingChoice')
                /\ playerEntries' = playerEntries
       /\ (paymentPendingChoice # NULL /\ paymentPendingChoice' # NULL)
             => paymentPendingChoice' = paymentPendingChoice
       /\ (paymentPendingChoice # NULL /\ currentRound' # NoRound
             /\ currentRound # NoRound /\ currentRound'.id # currentRound.id)
             => paymentPendingChoice' = NULL /\ playerEntries' = playerEntries
       /\ playerEntries' # playerEntries
             => /\ paymentPendingChoice # NULL
                /\ currentRound # NoRound /\ currentRound'.id = currentRound.id
                /\ playerEntries' = addUserEntry(playerEntries, currentRound.id)
      ]_vars

\* C34 witness: an entry is recorded for round 1 and none for round 0, the
\* last contract call requested being the enterGame for round 1.
C34_Witness ==
    /\ currentRound # NoRound /\ currentRound.id = 1
    /\ hasUserEnteredRound(playerEntries, 1)
    /\ ~hasUserEnteredRound(playerEntries, 0)
    /\ writeRequest.fn = "enterGame" /\ writeRequest.round = 1
    /\ isConfirmed

\* C35 (as claimed): every enterGame transaction that is confirmed leads to
\* the user being recorded as entered for the round the transaction was
\* submitted for, also when the round advanced between submission and
\* confirmation.
C35_ConfirmedEntryRecorded ==
    \A r \in Rounds :
        (isConfirmed /\ hash = writeRequest /\ hash.fn = "enterGame" /\ hash.round = r)
            ~> hasUserEnteredRound(playerEntries, r)

\* C36: getCurrentRoundInfo returns the state "complete" exactly at the
\* clock readings with 0 < roundEnd - now <= 30000 and "entry" at every
\* other; it never returns "waiting", so gameState is "waiting" only before
\* the first tick and from then on the state of the last tick's reading;
\* and timeRemaining is roundEnd - now, more than 0 and at most the round
\* duration.
C36_EntryOrComplete ==
    /\ \A t \in ClockSamples \cup {now} :
         LET info == getCurrentRoundInfo(t)
             roundEnd == ((t \div FifteenMinutesMs) + 1) * FifteenMinutesMs
         IN  /\ info.state
                  = IF 0 < roundEnd - t /\ roundEnd - t <= 30000
                    THEN "complete" ELSE "entry"
             /\ info.timeRemaining = roundEnd - t
             /\ 0 < info.timeRemaining /\ info.timeRemaining <= FifteenMinutesMs
    /\ gameState \in {"waiting", "entry", "complete"}
    /\ gameState = "waiting" <=> currentRound = NoRound
    /\ gameState # "waiting" => gameState = getCurrentRoundInfo(now).state

\* C36 witness: the last tick fell into the last 30 seconds of round 1 and
\* the hook shows "complete"; an earlier tick had shown "entry".
C36_Witness ==
    /\ gameState = "complete"
    /\ currentRound # NoRound /\ currentRound.id = 1
    /\ 2 * FifteenMinutesMs - now = 30000
    /\ hasUserEnteredRound(playerEntries, 0)

\* C37 (as claimed): once handlePaymentCompleted has run, no timeout that
\* was armed before it can still invoke onPaymentCanceled, however many
\* handlePaymentStarted calls came before: every timeout still armed when
\* handlePaymentCompleted returns is one whose callback does nothing.
C37_CompletedDisarmsTimeouts ==
    [][ButtonHandlePaymentCompleted
          => \A tm \in timers' : ~TimeoutSees(tm.seen, isPaymentStarted')]_vars

C39_CurrentRoundStaysZero ==
    /\ [](/\ currentRoundId = 0
          /\ \A r \in Rounds : rounds[r].id = 0 /\ rounds[r].startTime = 0
          /\ getCurrentRound.id = 0
          /\ getCurrentRound.startTime = 0
          /\ getCurrentRound.prizePool = rounds[0].prizePool
          /\ getCurrentRound.chainMove = rounds[0].chainMove
          /\ getCurrentRound.playerEntries = rounds[0].playerEntries
          /\ getCurrentRound.isComplete = rounds[0].isComplete)
    /\ [][/\ currentRoundId' = currentRoundId
          /\ \A r \in Rounds : /\ rounds'[r].id = rounds[r].id
                               /\ rounds'[r].startTime = rounds[r].startTime]_vars

\* C39 witness: round 1 was entered and settled by the owner while round 0
\* has no entry; getCurrentRound reports the empty round 0.
C39_Witness ==
    /\ rounds[1].playerEntries > 0
    /\ rounds[1].isComplete
    /\ rounds[0].playerEntries = 0
    /\ getCurrentRound.id = 0
    /\ getCurrentRound.playerEntries = 0

====
